---- MODULE Spec2Model ----
(***************************************************************************)
(* State-machine model of the modal plugin of src/src/plugin.ts: the       *)
(* module-level registry `entries`, the registered controller              *)
(* `modalStack`, the per-instance reactive `stack`, the lifecycle hooks    *)
(* mounted / beforeUnmount, render (with the onDismissModal closure it     *)
(* binds for every entry it renders for the first time) and createModal.   *)
(*                                                                         *)
(* Objects with identity are numbered: controller instances 1..MaxInst in  *)
(* the order they mount, ModalEntry objects (and the promise each one's    *)
(* `resolve` belongs to) 1..MaxModals in the order createModal builds      *)
(* them, vnodes by their position in `vnodes` in the order render builds   *)
(* them.  Identifiers come from Math.random(): any value of Ids, with no   *)
(* freshness check, as in the source; the distinct values are numbered in  *)
(* the order they are first drawn.                                         *)
(***************************************************************************)
EXTENDS Integers, Sequences, FiniteSets, TLC

\* ---------------------------------------------------------------- bounds
MaxInst == 3
MaxModals == 2
NumIds == 2

Insts == 1..MaxInst
Refs == 1..MaxModals
Ids == 1..NumIds
Results == {"x", "y"}

\* `undefined` for the registered controller, a registry slot, entry.vnode
NoInst == 0
NoEntry == 0
NoVNode == 0

WarnMultiple == "Vue modal stack component mounted multiple times"
WarnNoStack == "No ModalStack component mounted in current render tree"

VARIABLES
  lifecycle,   \* [Insts -> {"new", "mounted", "unmounted"}]
  modalStack,  \* the registered controller instance, or NoInst
  stack,       \* [Insts -> Seq(Ids)]: this.stack of each instance
  entries,     \* [Ids -> Refs \cup {NoEntry}]: the registry
  created,     \* number of ModalEntry objects (createModal calls) so far
  drawn,       \* number of distinct identifiers Math.random() gave so far
  entry,       \* [Refs -> record]: the ModalEntry objects, by identity
  promise,     \* [Refs -> record]: the promise createModal returned
  vnodes,      \* Seq of the vnodes render built, each with its closure
  tree,        \* [Insts -> Seq(vnode index)]: last render output, mounted
  emitted,     \* events $emit-ted by the last step, in order
  warned,      \* warnings warn()-ed by the last step
  op,          \* the last step taken
  hist         \* [Refs -> record]: per createModal call, what was drawn and
               \* delivered (id, target stack, first result, dismissed)

vars == <<lifecycle, modalStack, stack, entries, created, drawn, entry, promise,
          vnodes, tree, emitted, warned, op, hist>>

\* ------------------------------------------------------- pure helpers

\* (variant: the `index >= 0` test left out, so that splice(-1, 1) takes the
\* last element when x is absent)
indexOfOrLast(s, x) ==
  IF \E k \in 1..Len(s) : s[k] = x
  THEN CHOOSE k \in 1..Len(s) : s[k] = x /\ \A j \in 1..(k - 1) : s[j] # x
  ELSE Len(s)

\* Array.prototype.indexOf: first position of x in s, 0 standing for -1
indexOf(s, x) ==
  IF \E k \in 1..Len(s) : s[k] = x
  THEN CHOOSE k \in 1..Len(s) : s[k] = x /\ \A j \in 1..(k - 1) : s[j] # x
  ELSE 0

\* Array.prototype.splice(index, 1) for a 1-based index
splice(s, index) ==
  [k \in 1..(Len(s) - 1) |-> IF k < index THEN s[k] ELSE s[k + 1]]

\* (variant: the comparison off by one)
hasModalsOffByOne(s) == Len(s) >= 0

\* computed hasModals of an instance whose stack is s
hasModals(s) == Len(s) > 0

\* this.$emit(name, arg) by instance i
Event(i, name, arg) == [by |-> i, name |-> name, arg |-> arg]

\* (variant: a resolve that is not one-shot, as a plain callback would be)
PromiseResolveAgain(p, r) ==
  [status |-> "resolved", value |-> r, settles |-> p.settles + 1]

\* the one-shot resolve / reject functions of a promise record
PromiseResolve(p, r) ==
  IF p.status = "pending"
  THEN [status |-> "resolved", value |-> r, settles |-> p.settles + 1]
  ELSE p

PromiseReject(p) ==
  IF p.status = "pending"
  THEN [status |-> "rejected", value |-> "", settles |-> p.settles + 1]
  ELSE p

NewPromise == [status |-> "pending", value |-> "", settles |-> 0]
NoPromise == [status |-> "none", value |-> "", settles |-> 0]

\* a ModalEntry that does not exist yet / a freshly built one has no vnode
NoModalEntry == [made |-> FALSE, vnode |-> NoVNode]

NoOp == [kind |-> "init", inst |-> NoInst, ref |-> NoEntry, id |-> 0,
         node |-> NoVNode, result |-> "", threw |-> FALSE,
         index |-> 0, called |-> NoEntry]

NoHist == [id |-> 0, target |-> NoInst, first |-> "", dismissed |-> FALSE]

\* the shape of the state: entries (line 72), modalStack (78), stack (84),
\* ModalEntry.vnode (66), the promises and vnodes the handlers build
TypeOK ==
  /\ lifecycle \in [Insts -> {"new", "mounted", "unmounted"}]
  /\ modalStack \in Insts \cup {NoInst}
  /\ \A i \in Insts : stack[i] \in Seq(Ids) /\ Len(stack[i]) <= MaxModals
  /\ entries \in [Ids -> Refs \cup {NoEntry}]
  /\ created \in 0..MaxModals
  /\ drawn \in 0..NumIds
  /\ \A e \in Refs : /\ entry[e].made \in BOOLEAN
                      /\ entry[e].vnode \in 0..Len(vnodes)
                      /\ promise[e].status \in
                           {"none", "pending", "resolved", "rejected"}
                      /\ promise[e].value \in Results \cup {""}
  /\ \A n \in 1..Len(vnodes) : /\ vnodes[n].inst \in Insts
                                /\ vnodes[n].id \in Ids
                                /\ vnodes[n].ref \in Refs
  /\ \A i \in Insts : \A k \in 1..Len(tree[i]) : tree[i][k] \in 1..Len(vnodes)
  /\ \A k \in 1..Len(emitted) :
       emitted[k].name \in {"modals", "modalCreated", "modalDismissed"}

\* ---------------------------------------------------------------- Init
Init ==
  /\ lifecycle = [i \in Insts |-> "new"]
  /\ modalStack = NoInst
  /\ stack = [i \in Insts |-> <<>>]
  /\ entries = [id \in Ids |-> NoEntry]
  /\ created = 0
  /\ drawn = 0
  /\ entry = [e \in Refs |-> NoModalEntry]
  /\ promise = [e \in Refs |-> NoPromise]
  /\ vnodes = <<>>
  /\ tree = [i \in Insts |-> <<>>]
  /\ emitted = <<>>
  /\ warned = <<>>
  /\ op = NoOp
  /\ hist = [e \in Refs |-> NoHist]

\* ------------------------------------------------------------- mounted
\* (variant: the last mounted instance registers, `modalStack = this` after
\* the warning)
mountedLastWins(i) ==
  /\ lifecycle[i] = "new"
  /\ \A j \in 1..(i - 1) : lifecycle[j] # "new"
  /\ lifecycle' = [lifecycle EXCEPT ![i] = "mounted"]
  /\ warned' = IF modalStack # NoInst THEN <<WarnMultiple>> ELSE <<>>
  /\ modalStack' = i
  /\ emitted' = <<>>
  /\ op' = [NoOp EXCEPT !.kind = "mounted", !.inst = i]
  /\ UNCHANGED <<stack, entries, created, drawn, entry, promise, vnodes, tree,
               hist>>

\* mounted(): warn when a controller is already registered, else register.
\* The instance's first render ran just before, over its empty stack, and
\* produced no node.  Instances are numbered in the order they mount.
mounted(i) ==
  /\ lifecycle[i] = "new"
  /\ \A j \in 1..(i - 1) : lifecycle[j] # "new"
  /\ lifecycle' = [lifecycle EXCEPT ![i] = "mounted"]
  /\ IF modalStack # NoInst
     THEN /\ warned' = <<WarnMultiple>>
          /\ modalStack' = modalStack
     ELSE /\ warned' = <<>>
          /\ modalStack' = i
  /\ emitted' = <<>>
  /\ op' = [NoOp EXCEPT !.kind = "mounted", !.inst = i]
  /\ UNCHANGED <<stack, entries, created, drawn, entry, promise, vnodes, tree,
               hist>>

\* ------------------------------------------------------- beforeUnmount
\* (variant: `modalStack = undefined` without the `modalStack === this` test)
beforeUnmountUnconditional(i) ==
  /\ lifecycle[i] = "mounted"
  /\ lifecycle' = [lifecycle EXCEPT ![i] = "unmounted"]
  /\ modalStack' = NoInst
  /\ tree' = [tree EXCEPT ![i] = <<>>]
  /\ emitted' = <<>>
  /\ warned' = <<>>
  /\ op' = [NoOp EXCEPT !.kind = "beforeUnmount", !.inst = i]
  /\ UNCHANGED <<stack, entries, created, drawn, entry, promise, vnodes, hist>>

\* beforeUnmount(): unregister if this instance is the registered one.  The
\* host then unmounts the instance's subtree, so none of its modal
\* components can emit any more.
beforeUnmount(i) ==
  /\ lifecycle[i] = "mounted"
  /\ lifecycle' = [lifecycle EXCEPT ![i] = "unmounted"]
  /\ modalStack' = IF modalStack = i THEN NoInst ELSE modalStack
  /\ tree' = [tree EXCEPT ![i] = <<>>]
  /\ emitted' = <<>>
  /\ warned' = <<>>
  /\ op' = [NoOp EXCEPT !.kind = "beforeUnmount", !.inst = i]
  /\ UNCHANGED <<stack, entries, created, drawn, entry, promise, vnodes, hist>>

\* --------------------------------------------------------- createModal
\* createModal(component, props): the executor of the returned promise.
\* `id` is the value Math.random() yields.  After warn + reject the
\* executor does not return: it goes on to store the entry, and only the
\* push is skipped (modalStack?.stack.push).
createModal(id) ==
  /\ created < MaxModals
  /\ id <= drawn + 1
  /\ drawn' = IF id > drawn THEN id ELSE drawn
  /\ LET e == created + 1
         p0 == NewPromise
         p1 == IF modalStack = NoInst THEN PromiseReject(p0) ELSE p0
     IN /\ created' = e
        /\ warned' = IF modalStack = NoInst THEN <<WarnNoStack>> ELSE <<>>
        /\ promise' = [promise EXCEPT ![e] = p1]
        /\ entry' = [entry EXCEPT ![e] = [NoModalEntry EXCEPT !.made = TRUE]]
        /\ entries' = [entries EXCEPT ![id] = e]
        /\ stack' = IF modalStack = NoInst
                    THEN stack
                    ELSE [stack EXCEPT ![modalStack] = Append(@, id)]
        /\ op' = [NoOp EXCEPT !.kind = "createModal", !.inst = modalStack,
                              !.ref = e, !.id = id]
        /\ hist' = [hist EXCEPT ![e] = [NoHist EXCEPT !.id = id,
                                                      !.target = modalStack]]
  /\ emitted' = <<>>
  /\ UNCHANGED <<lifecycle, modalStack, vnodes, tree>>

\* -------------------------------------------------------------- render
\* (variant: the cache check left out)
cachedNever(en) == FALSE

\* `if (entry.vnode) return entry.vnode`
cached(en) == en.vnode # NoVNode

\* One pass of this.stack.map(...) from position k on.  st carries what the
\* callback changes: the entries' vnode fields, the vnodes built, the
\* events emitted, the array returned so far, and whether `entries[id]`
\* was undefined (reading `.vnode` of it throws and ends the pass).
RECURSIVE renderFrom(_, _, _)
renderFrom(i, k, st) ==
  IF k > Len(stack[i]) \/ st.threw THEN st
  ELSE LET id == stack[i][k]
           e == entries[id]
       IN IF e = NoEntry THEN [st EXCEPT !.threw = TRUE]
          ELSE IF cached(st.entry[e])
          THEN renderFrom(i, k + 1,
                 [st EXCEPT !.out = Append(@, st.entry[e].vnode)])
          ELSE LET n == Len(st.vnodes) + 1
               IN renderFrom(i, k + 1,
                    [st EXCEPT
                       !.vnodes = Append(@, [inst |-> i, id |-> id, ref |-> e]),
                       !.emitted = @ \o
                          <<Event(i, "modalDismissed", hasModals(stack[i])),
                            Event(i, "modals", hasModals(stack[i]))>>,
                       !.entry = [@ EXCEPT ![e].vnode = n],
                       !.out = Append(@, n)])

\* render() of a mounted instance.  When the pass throws, the host keeps no
\* modal of this instance mounted.
render(i) ==
  /\ lifecycle[i] = "mounted"
  /\ LET st == renderFrom(i, 1, [entry |-> entry, vnodes |-> vnodes,
                                  emitted |-> <<>>, out |-> <<>>,
                                  threw |-> FALSE])
     IN /\ entry' = st.entry
        /\ vnodes' = st.vnodes
        /\ emitted' = st.emitted
        /\ tree' = [tree EXCEPT ![i] = IF st.threw THEN <<>> ELSE st.out]
        /\ op' = [NoOp EXCEPT !.kind = "render", !.inst = i,
                              !.threw = st.threw]
  /\ warned' = <<>>
  /\ UNCHANGED <<lifecycle, modalStack, stack, entries, created, drawn, promise,
               hist>>

\* ------------------------------------------------------ onDismissModal
\* (variant: the entry looked up in the registry when the hook runs)
lookedUp(n) ==
  IF entries[vnodes[n].id] # NoEntry THEN entries[vnodes[n].id]
  ELSE vnodes[n].ref

\* `entry`, as the closure captured it: the object, not the registry slot
captured(n) == vnodes[n].ref

\* The closure render bound in vnode n (this = inst, id, entry = ref),
\* called with `result` when the modal component mounted from n emits
\* 'dismissModal'.  Only a component of the instance's last render output
\* can emit (the host drops the emits of unmounted components); it may
\* emit again until the next render takes it out.
onDismissModal(n, result) ==
  /\ n \in 1..Len(vnodes)
  /\ LET this == vnodes[n].inst
         id == vnodes[n].id
         e == captured(n)
         index == indexOf(stack[this], id)
         stack1 == IF index >= 1 THEN splice(stack[this], index)
                   ELSE stack[this]
     IN /\ \E k \in 1..Len(tree[this]) : tree[this][k] = n
        /\ stack' = [stack EXCEPT ![this] = stack1]
        /\ entries' = [entries EXCEPT ![id] = NoEntry]
        /\ promise' = [promise EXCEPT ![e] = PromiseResolve(@, result)]
        /\ emitted' = <<Event(this, "modalCreated", hasModals(stack1)),
                        Event(this, "modals", hasModals(stack1))>>
        /\ op' = [NoOp EXCEPT !.kind = "onDismissModal", !.inst = this,
                              !.ref = vnodes[n].ref, !.id = id, !.node = n,
                              !.result = result, !.index = index,
                              !.called = e]
        /\ hist' = [hist EXCEPT
                      ![vnodes[n].ref].first = IF @ = "" THEN result ELSE @,
                      ![vnodes[n].ref].dismissed = TRUE]
  /\ warned' = <<>>
  /\ UNCHANGED <<lifecycle, modalStack, created, drawn, entry, vnodes, tree>>

\* ---------------------------------------------------------------- Next
Next ==
  \/ \E i \in Insts : mounted(i)
  \/ \E i \in Insts : beforeUnmount(i)
  \/ \E id \in Ids : createModal(id)
  \/ \E i \in Insts : render(i)
  \/ \E n \in 1..MaxModals, r \in Results : onDismissModal(n, r)

Spec == Init /\ [][Next]_vars

\* The same program when Math.random() never repeats a value: used to tell
\* which failures need two modals with one identifier.
NextUnique ==
  \/ \E i \in Insts : mounted(i)
  \/ \E i \in Insts : beforeUnmount(i)
  \/ \E id \in Ids : id = drawn + 1 /\ createModal(id)
  \/ \E i \in Insts : render(i)
  \/ \E n \in 1..MaxModals, r \in Results : onDismissModal(n, r)

SpecUnique == Init /\ [][NextUnique]_vars

\* ------------------------------------------------------ claim helpers
Range(s) == {s[k] : k \in 1..Len(s)}
Keys == {id \in Ids : entries[id] # NoEntry}
Made == 1..created
Names(evs) == [k \in 1..Len(evs) |-> evs[k].name]

\* the identifiers of the modals pushed to instance i and not yet
\* dismissed, in creation order, from reference e on
RECURSIVE OpenFrom(_, _)
OpenFrom(i, e) ==
  IF e > created THEN <<>>
  ELSE IF hist[e].target = i /\ ~hist[e].dismissed
       THEN <<hist[e].id>> \o OpenFrom(i, e + 1)
       ELSE OpenFrom(i, e + 1)

\* ------------------------------------------------------------------ C1
\* C1: for every modal created while a controller was registered, once a
\* dismiss signal of that modal has been delivered its future is resolved
\* with the result of the first such signal and has settled exactly once,
\* whatever later signals of the same modal carried.
C1_DismissResolvesOnce ==
  \A e \in Made :
    (hist[e].target # NoInst /\ hist[e].dismissed) =>
      promise[e] = [status |-> "resolved", value |-> hist[e].first,
                    settles |-> 1]

\* a second dismiss signal of one modal, carrying another result
C1_Witness ==
  /\ op.kind = "onDismissModal"
  /\ hist[op.ref].target # NoInst
  /\ hist[op.ref].first # op.result
  /\ promise[op.ref].value = hist[op.ref].first

\* ------------------------------------------------------------------ C2
\* C2: a createModal called while no controller is registered rejects the
\* returned future and leaves every stack and the registry as they were.
C2_RejectedCreateChangesNothing ==
  [][(modalStack = NoInst /\ created' = created + 1) =>
       /\ promise'[created'].status = "rejected"
       /\ stack' = stack
       /\ entries' = entries]_vars

\* ------------------------------------------------------------------ C3
\* C3: in every reachable state the length of the registered controller's
\* stack equals the number of entries in the registry (a dismissed entry is
\* deleted from it).
C3_StackLenIsRegistrySize ==
  modalStack # NoInst => Len(stack[modalStack]) = Cardinality(Keys)

\* ------------------------------------------------------------------ C4
\* C4: right after a dismissal its identifier occurs in no stack and is
\* not a key of the registry.
C4_DismissedIdGone ==
  op.kind = "onDismissModal" =>
    /\ op.id \notin Keys
    /\ \A i \in Insts : op.id \notin Range(stack[i])

\* ------------------------------------------------------------------ C5
\* C5: every stack lists the identifiers of the modals created on it and
\* not yet dismissed, in the order they were created.
C5_StackIsOpenModalsInOrder ==
  \A i \in Insts : stack[i] = OpenFrom(i, 1)

\* ------------------------------------------------------------------ C6
\* C6: 'modalCreated' is emitted when a modal is created (first rendered)
\* and only then, 'modalDismissed' when a modal is dismissed and only then,
\* each together with one 'modals'.
C6_EventNamesFollowCause ==
  /\ op.kind = "onDismissModal" =>
       Names(emitted) = <<"modalDismissed", "modals">>
  /\ op.kind # "onDismissModal" =>
       \A k \in 1..Len(emitted) : emitted[k].name # "modalDismissed"
  /\ op.kind # "render" =>
       \A k \in 1..Len(emitted) : emitted[k].name # "modalCreated"

\* ------------------------------------------------------------------ C7
\* C7: every event carries one boolean, true exactly when the emitting
\* controller's stack is non-empty at the moment of emission (a handler
\* emits after all its changes to the stack).
C7_EventCarriesStackNonEmpty ==
  \A k \in 1..Len(emitted) :
    /\ emitted[k].arg \in BOOLEAN
    /\ emitted[k].arg = (stack[emitted[k].by] # <<>>)

\* the dismissal of the last open modal of a controller: its events carry
\* false
C7_Witness ==
  /\ op.kind = "onDismissModal"
  /\ Len(emitted) = 2
  /\ emitted[1].arg = FALSE
  /\ emitted[2].arg = FALSE
  /\ stack[op.inst] = <<>>

\* ------------------------------------------------------------------ C8
\* C8: a pending future leaves the pending state only in a step that
\* delivers the dismiss signal of the vnode built for its own entry, and
\* then it is resolved, never rejected.
C8_OnlyOwnDismissSettles ==
  [][\A e \in Refs :
       (promise[e].status = "pending" /\ promise'[e].status # "pending") =>
         /\ op'.kind = "onDismissModal"
         /\ vnodes[op'.node].ref = e
         /\ promise'[e].status = "resolved"]_vars

\* one modal dismissed and resolved while another one, created on a
\* registered controller, is still pending
C8_Witness ==
  /\ op.kind = "onDismissModal"
  /\ promise[op.ref].status = "resolved"
  /\ \E e \in Made : e # op.ref /\ promise[e].status = "pending"

\* ------------------------------------------------------------------ C9
\* C9: a mount warns 'mounted multiple times' exactly when another
\* controller instance is mounted at that moment.
C9_WarnsIffAnotherMounted ==
  op.kind = "mounted" =>
    ((warned = <<WarnMultiple>>) <=>
       (\E j \in Insts : j # op.inst /\ lifecycle[j] = "mounted"))

EntryState(e, cr, h, en) ==
  IF e > cr THEN "none"
  ELSE IF h[e].dismissed THEN "Dismissed"
  ELSE IF en[e].vnode # NoVNode THEN "Rendered"
  ELSE "Created"

AllowedTransitions ==
  {<<"none", "Created">>, <<"Created", "Rendered">>,
   <<"Created", "Dismissed">>, <<"Rendered", "Dismissed">>}

\* what C11 and its amended form share: only the allowed transitions are
\* taken; a dismissed entry is never in the registry again; no render
\* returns its node again; its promise is resolved (its callback fires)
\* only in the step that takes it into Dismissed.
C11_Common ==
  \A e \in Refs :
    /\ LET a == EntryState(e, created, hist, entry)
           b == EntryState(e, created', hist', entry')
       IN a = b \/ <<a, b>> \in AllowedTransitions
    /\ hist'[e].dismissed => \A id \in Ids : entries'[id] # e
    /\ (op'.kind = "render" /\ hist[e].dismissed) =>
         entry[e].vnode \notin Range(tree'[op'.inst])
    /\ (promise'[e] # promise[e] /\ promise'[e].status = "resolved") =>
         (~hist[e].dismissed /\ hist'[e].dismissed)

\* C11 (as claimed): entries take only the transitions Created -> Rendered,
\* Created -> Dismissed, Rendered -> Dismissed; once dismissed, an entry is
\* never put back into the registry, its identifier is never put back into
\* a stack, it is never rendered again, and its callback fires only at the
\* transition into Dismissed.
C11_DismissedIsTerminal ==
  [][/\ C11_Common
     /\ \A e \in Refs, i \in Insts :
          (hist[e].dismissed /\ hist[e].id \notin Range(stack[i])) =>
            hist[e].id \notin Range(stack'[i])]_vars

\* C11 (amended): as claimed, except that the identifier of a dismissed
\* modal comes back into a stack exactly when a later createModal draws the
\* same identifier again, and then for the new entry of that call.
C11_DismissedIsTerminalUpToReuse ==
  [][/\ C11_Common
     /\ \A e \in Refs, i \in Insts :
          (hist[e].dismissed /\ hist[e].id \notin Range(stack[i])) =>
            (hist[e].id \in Range(stack'[i]) <=>
               /\ op'.kind = "createModal"
               /\ created' = created + 1
               /\ op'.id = hist[e].id
               /\ op'.inst = i
               /\ op'.ref # e
               /\ entries'[hist[e].id] = op'.ref)]_vars

\* a createModal that drew the identifier of an already dismissed modal
C11_Witness ==
  /\ op.kind = "createModal"
  /\ op.inst # NoInst
  /\ \E e \in Made : /\ e # op.ref
                     /\ hist[e].dismissed
                     /\ hist[e].id = op.id
                     /\ promise[e].status = "resolved"

\* ----------------------------------------------------------------- C12
\* C12: when a dismiss hook runs while its identifier is not in its
\* controller's stack, the stack is left as it was, the identifier is not a
\* key of the registry afterwards, and the resolve stored in the hook's own
\* entry is still called (its promise is settled) and the events emitted.
C12_AbsentIdDismissKeepsStack ==
  [][(op'.kind = "onDismissModal" /\
      op'.id \notin Range(stack[op'.inst])) =>
       /\ stack' = stack
       /\ entries'[op'.id] = NoEntry
       /\ op'.called = vnodes[op'.node].ref
       /\ promise'[op'.called].status = "resolved"
       /\ Len(emitted') = 2]_vars

\* a second dismiss signal of a modal while another modal is still open
C12_Witness ==
  /\ op.kind = "onDismissModal"
  /\ op.index = 0
  /\ hist[op.ref].dismissed
  /\ stack[op.inst] # <<>>
  /\ entries[op.id] = NoEntry

\* ----------------------------------------------------------------- C13
\* C13: identifiers are unique among the open modals: no identifier occurs
\* twice in a stack, and the registry entry of a modal that is still open
\* (pushed to a stack and not dismissed) is never overwritten: it stays in
\* the registry under its identifier.
C13_IdsUniqueAmongOpen ==
  /\ \A i \in Insts : \A j, k \in 1..Len(stack[i]) :
       j # k => stack[i][j] # stack[i][k]
  /\ \A e \in Made :
       (hist[e].target # NoInst /\ ~hist[e].dismissed) =>
         entries[hist[e].id] = e

\* ----------------------------------------------------------------- C14
\* C14: an unmount clears the registered controller when the unmounting
\* instance is the registered one and leaves it as it is otherwise; every
\* createModal called while no controller is registered is rejected (with
\* the warning).
C14_UnmountUnregistersOwn ==
  [][/\ op'.kind = "beforeUnmount" =>
          modalStack' = IF modalStack = op'.inst THEN NoInst ELSE modalStack
     /\ (created' = created + 1 /\ modalStack = NoInst) =>
          /\ promise'[created'].status = "rejected"
          /\ warned' = <<WarnNoStack>>]_vars

\* a createModal rejected after the registered controller unmounted, while
\* another instance, mounted second, is still mounted
C14_Witness ==
  /\ op.kind = "createModal"
  /\ promise[op.ref].status = "rejected"
  /\ modalStack = NoInst
  /\ \E i, j \in Insts : lifecycle[i] = "unmounted" /\ lifecycle[j] = "mounted"

\* ----------------------------------------------------------------- C15
\* C15: a createModal called while at least one controller instance is
\* mounted is not rejected and appends the identifier to the stack of an
\* instance that is mounted.
C15_CreateWorksWhileAnyMounted ==
  [][(created' = created + 1 /\ \E i \in Insts : lifecycle[i] = "mounted") =>
       /\ promise'[created'].status = "pending"
       /\ \E j \in Insts : /\ lifecycle[j] = "mounted"
                           /\ stack'[j] = Append(stack[j], op'.id)]_vars

\* ----------------------------------------------------------------- C16
\* C16: every identifier in the stack of a mounted controller (one whose
\* render can run) is a key of the registry, and no render has looked up a
\* missing entry.
C16_StackIdsInRegistry ==
  /\ \A i \in Insts :
       lifecycle[i] = "mounted" =>
         \A k \in 1..Len(stack[i]) : entries[stack[i][k]] # NoEntry
  /\ ~op.threw

\* ----------------------------------------------------------------- C17
\* C17: a mount that happens while a controller is registered leaves the
\* registration as it is; createModal pushes to the registered controller;
\* and while a controller is registered, every instance mounted after it
\* (a higher number) has an empty stack.
C17_FirstMountedStaysRegistered ==
  [][/\ (op'.kind = "mounted" /\ modalStack # NoInst) =>
          modalStack' = modalStack
     /\ (created' = created + 1 /\ modalStack # NoInst) =>
          /\ op'.inst = modalStack
          /\ stack' = [stack EXCEPT ![modalStack] = Append(@, op'.id)]
     /\ modalStack' # NoInst =>
          \A j \in Insts : j > modalStack' => stack'[j] = <<>>]_vars

\* a createModal pushed to the first-mounted controller while a second,
\* later instance is mounted with an empty stack
C17_Witness ==
  /\ op.kind = "createModal"
  /\ op.inst = modalStack
  /\ modalStack # NoInst
  /\ stack[modalStack] # <<>>
  /\ \E j \in Insts : /\ j > modalStack
                      /\ lifecycle[j] = "mounted"
                      /\ stack[j] = <<>>

\* ----------------------------------------------------------------- C18
\* C18: a future is resolved, and a modal dismissed, only when its entry
\* has a cached node; and every dismiss hook belongs to a vnode built by a
\* render for an existing entry.
C18_DismissOnlyAfterRender ==
  /\ \A e \in Refs :
       (promise[e].status = "resolved" \/ hist[e].dismissed) =>
         /\ e \in Made
         /\ entry[e].vnode # NoVNode
  /\ \A n \in 1..Len(vnodes) :
       /\ vnodes[n].ref \in Made
       /\ entry[vnodes[n].ref].vnode # NoVNode

\* one rendered modal dismissed and resolved while another modal, never
\* rendered, is still pending
C18_Witness ==
  /\ op.kind = "onDismissModal"
  /\ promise[op.ref].status = "resolved"
  /\ \E e \in Made : /\ e # op.ref
                     /\ entry[e].vnode = NoVNode
                     /\ promise[e].status = "pending"

====
